---------------------------- MODULE Spec2Model ----------------------------
(***************************************************************************)
(* A model of python/tritonserver/_api/_tensor.py: the Tensor / MemoryBuffer *)
(* value types, the DLPack export (capsule + managed-tensor record with its *)
(* two deleters), the import paths (from_dlpack, from_object), the device   *)
(* migration (to_device / to_host) and the BYTES codec                      *)
(* (_serialize_numpy_bytes_array / _deserialize_bytes_array).               *)
(*                                                                         *)
(* The module holds three state machines over disjoint groups of variables: *)
(*   SpecExport / SpecRedeliver : the export life cycle (reference counts,  *)
(*                                records, capsules, consumers)             *)
(*   SpecCodec                  : the BYTES codec applied to bounded inputs *)
(*   SpecTensor                 : a heap of Tensor objects and the          *)
(*                                operations on them                        *)
(***************************************************************************)
EXTENDS Integers, Sequences, FiniteSets, TLC

(***************************************************************************)
(* Bounds of the model.                                                     *)
(***************************************************************************)
NumTensors == 2      \* Tensor objects of the export life cycle
MaxExports == 2      \* __dlpack__ calls (managed-tensor records) per run
MaxFinalize == 2     \* finalizations delivered to one capsule
MaxDeleterCalls == 2 \* deleter invocations a consumer makes on one record
MaxBufLen == 5       \* bytes of a buffer handed to _deserialize_bytes_array
MaxItems == 2        \* elements of an array handed to the serializer
MaxItemLen == 2      \* bytes / characters of one element
MaxDeviceId == 1     \* memory_type_id ranges over 0..MaxDeviceId

VARIABLES
  \* ---- export life cycle ------------------------------------------------
  rc,            \* rc[t]: CPython reference count of Tensor t (0: deallocated)
  callerRefs,    \* callerRefs[t]: references to t the caller still holds
  recState,      \* recState[r]: "none" | "live" | "freed" (PyMem_Raw memory)
  recTensor,     \* recTensor[r]: the Tensor whose __dlpack__ made record r
  recAddr,       \* recAddr[r]: the address PyMem_RawMalloc gave record r
                 \*   (0: none yet); a freed address may be handed out again
  pin,           \* pin[r]: reference count of the ctypes pointer object that
                 \*   _set_dlpack_manager_ctx wraps in shape_obj and IncRefs;
                 \*   through b_base/_objects it keeps the record's wrapper,
                 \*   the c_int64 shape array and the py_object behind
                 \*   manager_ctx alive
  capName,       \* capName[r]: "none" | "dltensor" | "used_dltensor"
  capDestructor, \* capDestructor[r]: the capsule still has its destructor
  capFinalized,  \* capFinalized[r]: finalizations delivered to the capsule
  consumerCalls, \* consumerCalls[r]: deleter invocations by the consumer
  deleterRuns,   \* deleterRuns[r]: runs of _managed_tensor_deleter on r
  decs,          \* decs[r]: Py_DecRef(tensor_obj) performed through r
  strayDecs,     \* strayDecs[r]: Py_DecRef(shape_obj) performed through r on
                 \*   a pointer object other than the pinned one
  frees,         \* frees[r]: PyMem_RawFree calls on record r
  crashed,       \* the process died (segfault / allocator abort)
  \* ---- BYTES codec ------------------------------------------------------
  codecOp,       \* "idle" | "decode" | "encode" | "roundtrip"
  codecIn,       \* the argument of the last codec call
  codecOut,      \* what the last codec call returned or raised
  \* ---- Tensor operations ------------------------------------------------
  cupy,          \* the module-level `cupy` is not None (a bridge is present)
  tensor,        \* the fields of the receiver Tensor (self)
  last           \* the last call: its argument, self before it, its outcome

exportVars == <<rc, callerRefs, recState, recTensor, recAddr, pin, capName,
                capDestructor, capFinalized, consumerCalls, deleterRuns,
                decs, strayDecs, frees, crashed>>

codecVars == <<codecOp, codecIn, codecOut>>

tensorVars == <<cupy, tensor, last>>

vars == <<exportVars, codecVars, tensorVars>>

nonExportVars == <<codecVars, tensorVars>>

Tensors == 1..NumTensors
Records == 1..MaxExports

(***************************************************************************)
(* References the ctypes objects kept by the record's wrapper hold on the   *)
(* exporting Tensor: py_object(self) keeps one, pointer(tensor_obj) keeps   *)
(* one more in its _objects.                                                *)
(***************************************************************************)
KeptRefs == 2

c_str_dltensor == "dltensor"
c_str_used_dltensor == "used_dltensor"

TensorAlive(t) == rc[t] > 0
\* The c_int64 array behind dl_tensor.shape is owned by the wrapper's _objects.
ShapeArrayAlive(r) == pin[r] > 0
\* manager_ctx is the address of the py_object instance tensor_obj.
BackRefAlive(r) == pin[r] > 0
\* dl_tensor.data is memory owned by memory_buffer.owner, held by the Tensor.
DataAlive(r) == TensorAlive(recTensor[r])

ExportInit ==
  /\ rc = [t \in Tensors |-> 1]
  /\ callerRefs = [t \in Tensors |-> 1]
  /\ recState = [r \in Records |-> "none"]
  /\ recTensor = [r \in Records |-> 1]
  /\ recAddr = [r \in Records |-> 0]
  /\ pin = [r \in Records |-> 0]
  /\ capName = [r \in Records |-> "none"]
  /\ capDestructor = [r \in Records |-> FALSE]
  /\ capFinalized = [r \in Records |-> 0]
  /\ consumerCalls = [r \in Records |-> 0]
  /\ deleterRuns = [r \in Records |-> 0]
  /\ decs = [r \in Records |-> 0]
  /\ strayDecs = [r \in Records |-> 0]
  /\ frees = [r \in Records |-> 0]
  /\ crashed = FALSE

(***************************************************************************)
(* Tensor._set_dlpack_manager_ctx: manager_ctx := address of py_object(self);*)
(* Py_IncRef(self); Py_IncRef(the pointer object read from dl_tensor.shape). *)
(***************************************************************************)
set_dlpack_manager_ctx_no_shape_incref(t, r) ==
  \* without Py_IncRef(shape_obj) the pointer object dies on return and with
  \* it the wrapper, the shape array and the py_object behind manager_ctx
  /\ pin' = [pin EXCEPT ![r] = 0]
  /\ rc' = [rc EXCEPT ![t] = @ + 1]

set_dlpack_manager_ctx(t, r) ==
  /\ pin' = [pin EXCEPT ![r] = 1]
  /\ rc' = [rc EXCEPT ![t] = @ + 1 + KeptRefs]

\* The record the next __dlpack__ call allocates.
NextRecord == Cardinality({r \in Records : recState[r] # "none"}) + 1

\* Tensor._create_managed_tensor: PyMem_RawMalloc returns an address that no
\* live record occupies: one never used before, or that of a freed record.
Addresses == 1..MaxExports
UsedAddresses == {recAddr[r] : r \in {q \in Records : recState[q] # "none"}}
LiveAddresses == {recAddr[r] : r \in {q \in Records : recState[q] = "live"}}
create_managed_tensor ==
  {a \in Addresses \ UsedAddresses : \A b \in Addresses \ UsedAddresses : a <= b}
  \cup (UsedAddresses \ LiveAddresses)

\* The record that was last placed at the address `handle`.
RecordAt(handle) ==
  CHOOSE q \in Records :
    /\ recState[q] # "none" /\ recAddr[q] = handle
    /\ \A p \in Records :
         (recState[p] # "none" /\ recAddr[p] = handle) => p <= q

(***************************************************************************)
(* Tensor.__dlpack__: allocate and fill the record, set the manager context, *)
(* wrap it in a capsule named "dltensor" with _pycapsule_deleter.           *)
(***************************************************************************)
dlpack(t) ==
  /\ UNCHANGED nonExportVars
  /\ ~crashed
  /\ callerRefs[t] > 0
  /\ NextRecord \in Records
  /\ LET r == NextRecord IN
       /\ \E address \in create_managed_tensor :
            recAddr' = [recAddr EXCEPT ![r] = address]
       /\ recState' = [recState EXCEPT ![r] = "live"]
       /\ recTensor' = [recTensor EXCEPT ![r] = t]
       /\ set_dlpack_manager_ctx(t, r)
       /\ capName' = [capName EXCEPT ![r] = c_str_dltensor]
       /\ capDestructor' = [capDestructor EXCEPT ![r] = TRUE]
  /\ UNCHANGED <<callerRefs, capFinalized, consumerCalls, deleterRuns, decs,
                 strayDecs, frees, crashed>>

(***************************************************************************)
(* Tensor._managed_tensor_deleter(handle), called with the address of       *)
(* record r.  It acts on whatever is at that address: record r itself, or,  *)
(* when r was freed and a later __dlpack__ got the same address, that later *)
(* record.  On a live record: DecRef the Tensor found through manager_ctx,  *)
(* DecRef a pointer object freshly read from dl_tensor.shape (not the       *)
(* pinned one), free the record.  When the memory at the address is freed,  *)
(* or its manager_ctx dangles, the reads are of freed memory and the build  *)
(* decides what they find:                                                  *)
(*   "crash"      the process dies in the call;                             *)
(*   "ValueError" manager_ctx reads as NULL, `.contents` raises on line     *)
(*                561 and the callback ends with no effect;                 *)
(*   "free_only"  the py_object behind manager_ctx reads as NULL, so        *)
(*                Py_DecRef does nothing to the Tensor; the shape pointer   *)
(*                object is decremented and the record is freed again;      *)
(*   "stale"      the old contents are still there: the Tensor is           *)
(*                decremented again and the record is freed again.          *)
(* A second PyMem_RawFree of the same memory may go undetected in the call. *)
(***************************************************************************)
FreedReadOutcomes == {"crash", "ValueError", "free_only", "stale"}

managed_tensor_deleter(r) ==
  LET q == RecordAt(recAddr[r])
      t == recTensor[q]
  IN
  /\ deleterRuns' = [deleterRuns EXCEPT ![r] = @ + 1]
  /\ IF recState[q] = "live" /\ BackRefAlive(q) /\ rc[t] > 0
       THEN /\ rc' = [rc EXCEPT ![t] = @ - 1]
            /\ decs' = [decs EXCEPT ![q] = @ + 1]
            /\ strayDecs' = [strayDecs EXCEPT ![q] = @ + 1]
            /\ recState' = [recState EXCEPT ![q] = "freed"]
            /\ frees' = [frees EXCEPT ![q] = @ + 1]
            /\ UNCHANGED crashed
       ELSE \E found \in FreedReadOutcomes :
              IF found = "stale" /\ BackRefAlive(q) /\ rc[t] > 0
                THEN /\ rc' = [rc EXCEPT ![t] = @ - 1]
                     /\ decs' = [decs EXCEPT ![q] = @ + 1]
                     /\ strayDecs' = [strayDecs EXCEPT ![q] = @ + 1]
                     /\ frees' = [frees EXCEPT ![q] = @ + 1]
                     /\ UNCHANGED <<recState, crashed>>
              ELSE IF found = "free_only"
                THEN /\ strayDecs' = [strayDecs EXCEPT ![q] = @ + 1]
                     /\ frees' = [frees EXCEPT ![q] = @ + 1]
                     /\ UNCHANGED <<rc, decs, recState, crashed>>
              ELSE IF found = "ValueError"
                THEN UNCHANGED <<rc, decs, strayDecs, recState, frees, crashed>>
              ELSE /\ crashed' = TRUE
                   /\ UNCHANGED <<rc, decs, strayDecs, recState, frees>>

\* PyCapsule_IsValid(pycapsule, name): a capsule whose name is `name`.
PyCapsule_IsValid_any_name(r, name) == capName[r] # "none"

PyCapsule_IsValid(r, name) == capName[r] = name

(***************************************************************************)
(* Tensor._pycapsule_deleter(handle): delegate to the managed-tensor deleter *)
(* when the capsule is still valid for "dltensor", then clear the capsule's *)
(* destructor.                                                              *)
(***************************************************************************)
pycapsule_deleter(r) ==
  IF PyCapsule_IsValid(r, c_str_dltensor)
    THEN /\ managed_tensor_deleter(r)
         /\ capDestructor' = [capDestructor EXCEPT ![r] = FALSE]
    ELSE UNCHANGED <<rc, decs, strayDecs, recState, frees, crashed,
                     deleterRuns, capDestructor>>

(***************************************************************************)
(* The environment: the caller and the consumer of the capsule.             *)
(***************************************************************************)
\* The caller drops a reference to a Tensor.
DropRef(t) ==
  /\ UNCHANGED nonExportVars
  /\ ~crashed
  /\ callerRefs[t] > 0
  /\ callerRefs' = [callerRefs EXCEPT ![t] = @ - 1]
  /\ rc' = [rc EXCEPT ![t] = @ - 1]
  /\ UNCHANGED <<recState, recTensor, recAddr, pin, capName, capDestructor,
                 capFinalized, consumerCalls, deleterRuns, decs, strayDecs,
                 frees, crashed>>

\* A consumer takes the managed tensor out of the capsule and renames it.
ConsumerTake(r) ==
  /\ UNCHANGED nonExportVars
  /\ ~crashed
  /\ capName[r] = c_str_dltensor
  /\ capFinalized[r] = 0
  /\ capName' = [capName EXCEPT ![r] = c_str_used_dltensor]
  /\ UNCHANGED <<rc, callerRefs, recState, recTensor, recAddr, pin, capDestructor,
                 capFinalized, consumerCalls, deleterRuns, decs, strayDecs,
                 frees, crashed>>

\* The consumer that took the managed tensor calls its deleter.
ConsumerDelete(r) ==
  /\ UNCHANGED nonExportVars
  /\ ~crashed
  /\ capName[r] = c_str_used_dltensor
  /\ consumerCalls[r] = 0
  /\ consumerCalls' = [consumerCalls EXCEPT ![r] = 1]
  /\ managed_tensor_deleter(r)
  /\ UNCHANGED <<callerRefs, recTensor, recAddr, pin, capName, capDestructor,
                 capFinalized>>

\* The consumer calls the deleter of the same record again.
ConsumerDeleteAgain(r) ==
  /\ UNCHANGED nonExportVars
  /\ ~crashed
  /\ capName[r] = c_str_used_dltensor
  /\ consumerCalls[r] >= 1
  /\ consumerCalls[r] < MaxDeleterCalls
  /\ consumerCalls' = [consumerCalls EXCEPT ![r] = @ + 1]
  /\ managed_tensor_deleter(r)
  /\ UNCHANGED <<callerRefs, recTensor, recAddr, pin, capName, capDestructor,
                 capFinalized>>

\* Memory that was freed twice has damaged the allocator.
HeapCorrupt == \E r \in Records : frees[r] > 1

\* After an undetected double free the process aborts in a later call of
\* the allocator ("free(): double free detected").
AllocatorAbort ==
  /\ UNCHANGED nonExportVars
  /\ ~crashed
  /\ HeapCorrupt
  /\ crashed' = TRUE
  /\ UNCHANGED <<rc, callerRefs, recState, recTensor, recAddr, pin, capName,
                 capDestructor, capFinalized, consumerCalls, deleterRuns,
                 decs, strayDecs, frees>>

\* The capsule is finalized: its destructor, when it still has one, runs.
CapsuleFinalize(r) ==
  /\ UNCHANGED nonExportVars
  /\ ~crashed
  /\ capName[r] # "none"
  /\ capFinalized[r] < MaxFinalize
  /\ capFinalized' = [capFinalized EXCEPT ![r] = @ + 1]
  /\ IF capDestructor[r]
       THEN pycapsule_deleter(r)
       ELSE UNCHANGED <<rc, decs, strayDecs, recState, frees, crashed,
                        deleterRuns, capDestructor>>
  /\ UNCHANGED <<callerRefs, recTensor, recAddr, pin, capName, consumerCalls>>

(***************************************************************************)
(* The BYTES codec.  A byte string is a sequence of numbers 0..255.  An     *)
(* array handed to the serializer is [dtype, items]: dtype "object_" holds  *)
(* arbitrary objects (byte strings, strings, integers), dtype "bytes_" is   *)
(* numpy's fixed-width byte-string array.                                   *)
(***************************************************************************)
SeqsUpTo(S, n) == UNION {[1..k -> S] : k \in 0..n}

Min(a, b) == IF a < b THEN a ELSE b

\* struct.pack("@I", n): 4 bytes, native (little-endian) order; struct.error
\* when n does not fit an unsigned 32-bit integer.
PackFits(n) == n >= 0 /\ (n \div 65536) < 65536

pack_I(n) == <<n % 256, (n \div 256) % 256, (n \div 65536) % 256,
               (n \div 16777216) % 256>>

\* struct.unpack_from("@I", buffer, offset) of 4 available bytes.
unpack_from_I(buffer, offset) ==
  buffer[offset + 1] + 256 * buffer[offset + 2] + 65536 * buffer[offset + 3]
    + 16777216 * buffer[offset + 4]

\* bytes(_buffer[lo : hi]): a slice is clamped to the buffer, never an error.
Slice(buffer, lo, hi) ==
  LET l == Min(lo, Len(buffer))
      h == Min(hi, Len(buffer))
  IN  IF h <= l THEN <<>> ELSE SubSeq(buffer, l + 1, h)

\* The while loop of _deserialize_bytes_array from `offset` with `result`.
RECURSIVE deserialize_loop(_, _, _)
deserialize_loop(buffer, offset, result) ==
  IF ~(offset < Len(buffer))
    THEN [ok |-> TRUE, error |-> "", items |-> result]
    ELSE IF Len(buffer) - offset < 4
      THEN [ok |-> FALSE, error |-> "struct.error", items |-> <<>>]
      ELSE LET item_length == unpack_from_I(buffer, offset)
               start == offset + 4
           IN  deserialize_loop(buffer, start + item_length,
                 Append(result, Slice(buffer, start, start + item_length)))

(***************************************************************************)
(* Tensor._deserialize_bytes_array(numpy_ndarray)                           *)
(***************************************************************************)
deserialize_bytes_array(buffer) == deserialize_loop(buffer, 0, <<>>)

\* str(n) for an integer n, as ASCII codes.
RECURSIVE Digits(_)
Digits(n) ==
  IF n < 10 THEN <<48 + n>> ELSE Append(Digits(n \div 10), 48 + (n % 10))

str_int(n) == IF n < 0 THEN <<45>> \o Digits(0 - n) ELSE Digits(n)

\* The UTF-8 encoding of one code point (below 65536).
utf8_char(cp) ==
  IF cp < 128 THEN <<cp>>
  ELSE IF cp < 2048 THEN <<192 + (cp \div 64), 128 + (cp % 64)>>
  ELSE <<224 + (cp \div 4096), 128 + ((cp \div 64) % 64), 128 + (cp % 64)>>

RECURSIVE utf8_encode(_)
utf8_encode(cps) ==
  IF cps = <<>> THEN <<>> ELSE utf8_char(Head(cps)) \o utf8_encode(Tail(cps))

\* numpy drops the trailing NUL bytes of an element of a bytes_ array.
RECURSIVE StripTrailingNul(_)
StripTrailingNul(b) ==
  IF b # <<>> /\ b[Len(b)] = 0 THEN StripTrailingNul(SubSeq(b, 1, Len(b) - 1))
  ELSE b

\* array_item.item(): the element as a Python object.
item_of(dtype, x) ==
  IF dtype = "bytes_" THEN [kind |-> "bytes", val |-> StripTrailingNul(x.val)]
  ELSE x

\* isinstance(item, bytes) or else str(item).encode("utf-8")
item_bytes(item) ==
  CASE item.kind = "bytes" -> item.val
    [] item.kind = "str" -> utf8_encode(item.val)
    [] item.kind = "int" -> str_int(item.val)

RECURSIVE serialize_loop(_, _, _)
serialize_loop(dtype, items, i) ==
  IF i > Len(items) THEN [ok |-> TRUE, error |-> "", buffer |-> <<>>]
  ELSE LET item == item_bytes(item_of(dtype, items[i]))
           rest == serialize_loop(dtype, items, i + 1)
       IN  IF ~PackFits(Len(item))
             THEN [ok |-> FALSE, error |-> "struct.error", buffer |-> <<>>]
             ELSE IF ~rest.ok THEN rest
             ELSE [ok |-> TRUE, error |-> "",
                   buffer |-> pack_I(Len(item)) \o item \o rest.buffer]

(***************************************************************************)
(* Tensor._serialize_numpy_bytes_array(array).  numpy.nditer refuses a      *)
(* zero-sized operand (the flag zerosize_ok is not passed): ValueError.     *)
(***************************************************************************)
serialize_numpy_bytes_array(array) ==
  IF Len(array.items) = 0
    THEN [ok |-> FALSE, error |-> "ValueError", buffer |-> <<>>]
    ELSE serialize_loop(array.dtype, array.items, 1)

\* decode(encode(array)) as the code computes it.
round_trip(array) ==
  LET enc == serialize_numpy_bytes_array(array)
  IN  IF enc.ok THEN deserialize_bytes_array(enc.buffer)
      ELSE [ok |-> FALSE, error |-> enc.error, items |-> <<>>]

\* The inputs of the codec runs.
BufferBytes == {0, 1, 2, 97}
Buffers == SeqsUpTo(BufferBytes, MaxBufLen)
ByteStrings == SeqsUpTo({0, 97}, MaxItemLen)
BytesElems == {[kind |-> "bytes", val |-> b] : b \in ByteStrings}
StrElems == {[kind |-> "str", val |-> c] : c \in SeqsUpTo({97, 233, 8364}, 1)}
IntElems == {[kind |-> "int", val |-> n] : n \in {-1, 0, 12}}
Arrays ==
  {[dtype |-> "object_", items |-> xs] :
      xs \in SeqsUpTo(BytesElems \cup StrElems \cup IntElems, MaxItems)}
  \cup {[dtype |-> "bytes_", items |-> xs] : xs \in SeqsUpTo(BytesElems, MaxItems)}

CodecIdle ==
  /\ codecOp = "idle"
  /\ codecIn = <<>>
  /\ codecOut = [ok |-> TRUE, error |-> "", items |-> <<>>]

Decode(buffer) ==
  /\ codecOp = "idle"
  /\ codecOp' = "decode"
  /\ codecIn' = buffer
  /\ codecOut' = deserialize_bytes_array(buffer)
  /\ UNCHANGED <<exportVars, tensorVars>>

Encode(array) ==
  /\ codecOp = "idle"
  /\ codecOp' = "encode"
  /\ codecIn' = array
  /\ codecOut' = serialize_numpy_bytes_array(array)
  /\ UNCHANGED <<exportVars, tensorVars>>

RoundTrip(array) ==
  /\ codecOp = "idle"
  /\ codecOp' = "roundtrip"
  /\ codecIn' = array
  /\ codecOut' = round_trip(array)
  /\ UNCHANGED <<exportVars, tensorVars>>

\* The call is over; the next one starts from scratch.
CodecReturn ==
  /\ codecOp # "idle"
  /\ codecOp' = "idle"
  /\ codecIn' = <<>>
  /\ codecOut' = [ok |-> TRUE, error |-> "", items |-> <<>>]
  /\ UNCHANGED <<exportVars, tensorVars>>

CodecNext ==
  \/ CodecReturn
  \/ \E buffer \in Buffers : Decode(buffer)
  \/ \E array \in Arrays : Encode(array)
  \/ \E array \in Arrays : RoundTrip(array)


(***************************************************************************)
(* Tensor operations.  One receiver Tensor (`tensor`) and the calls made on *)
(* it or on the static constructors; `last` records each call.              *)
(***************************************************************************)
MemoryTypes == {"CPU", "CPU_PINNED", "GPU"}
DeviceIds == 0..MaxDeviceId

RECURSIVE Product(_)
Product(shape) == IF shape = <<>> THEN 1 ELSE Head(shape) * Product(Tail(shape))

NoError == [kind |-> "none", detail |-> <<>>]
NoValue == [ref |-> "none"]

\* A call that raises `kind` with the message content `detail`.
Raises(kind, detail) ==
  [outcome |-> "raise", error |-> [kind |-> kind, detail |-> detail],
   value |-> NoValue, exported |-> FALSE, copied |-> FALSE, via |-> "none"]

Returns(value, exported, copied, via) ==
  [outcome |-> "return", error |-> NoError, value |-> value,
   exported |-> exported, copied |-> copied, via |-> via]

\* Tensor(data_type, shape, MemoryBuffer(data_ptr, memory_type,
\* memory_type_id, size, owner)); `data` is the content of the memory.
Tensor(data_type, shape, memory_buffer, data) ==
  [data_type |-> data_type, shape |-> shape,
   memory_type |-> memory_buffer.memory_type,
   memory_type_id |-> memory_buffer.memory_type_id,
   data_ptr |-> memory_buffer.data_ptr, size |-> memory_buffer.size,
   owner |-> memory_buffer.owner, data |-> data]

MemoryBuffer(data_ptr, memory_type, memory_type_id, size, owner) ==
  [data_ptr |-> data_ptr, memory_type |-> memory_type,
   memory_type_id |-> memory_type_id, size |-> size, owner |-> owner]

\* Element widths of the fixed-width data types used here.
itemsize(dtype) ==
  CASE dtype \in {"FP32", "float32"} -> 4
    [] dtype \in {"INT64", "int64"} -> 8
    [] dtype \in {"complex128"} -> 16
    [] OTHER -> 1

(***************************************************************************)
(* Tensor._to_numpy_on_host                                                 *)
(***************************************************************************)
to_numpy_on_host(self) ==
  IF self.memory_type \in {"CPU", "CPU_PINNED"}
    THEN [ok |-> TRUE, array |-> self.data, exported |-> TRUE, error |-> NoError]
  ELSE IF cupy
    THEN [ok |-> TRUE, array |-> self.data, exported |-> TRUE, error |-> NoError]
  ELSE [ok |-> FALSE, array |-> <<>>, exported |-> FALSE,
        error |-> [kind |-> "UnsupportedError", detail |-> <<self.memory_type>>]]

(***************************************************************************)
(* Tensor.to_bytes_array: [self (after the call), result].                  *)
(***************************************************************************)
to_bytes_array(self) ==
  IF self.data_type # "BYTES"
    THEN [self |-> self,
          result |-> Raises("InvalidArgumentError", <<self.data_type, "BYTES">>)]
  ELSE
    LET original_data_type == self.data_type
        original_shape == self.shape
        viewed == [self EXCEPT !.data_type = "UINT8", !.shape = <<self.size>>]
        host == to_numpy_on_host(viewed)
    IN  IF ~host.ok
          THEN [self |-> viewed,
                result |-> Raises(host.error.kind, host.error.detail)]
        ELSE
          LET restored == [viewed EXCEPT !.shape = original_shape,
                                         !.data_type = original_data_type]
              decoded == deserialize_bytes_array(host.array)
          IN  IF ~decoded.ok
                THEN [self |-> restored,
                      result |-> [Raises(decoded.error, <<>>) EXCEPT !.exported = TRUE]]
              ELSE IF Product(restored.shape) # Len(decoded.items)
                THEN [self |-> restored,
                      result |-> [Raises("ValueError", <<"reshape">>)
                                    EXCEPT !.exported = TRUE]]
              ELSE [self |-> restored,
                    result |-> Returns([ref |-> "array", items |-> decoded.items,
                                        shape |-> restored.shape],
                                       TRUE, FALSE, "none")]

(***************************************************************************)
(* The exchange view of an external object and the imports.                 *)
(***************************************************************************)
\* Element types the exchange protocol can describe; numpy refuses to export
\* an array of Python objects or of byte strings.
ExchangeDtypes == {"float32", "int64", "uint8", "complex128"}

\* DLPackObject(obj): the view of an object that has the protocol and can be
\* exported through it.
DLPackObject(obj) ==
  IF ~obj.has_dlpack \/ obj.np_dtype \notin ExchangeDtypes
    THEN [ok |-> FALSE, view |-> obj]
    ELSE [ok |-> TRUE, view |-> obj]

NUMPY_TO_TRITON_DTYPE(np_dtype) ==
  CASE np_dtype = "float32" -> "FP32"
    [] np_dtype = "int64" -> "INT64"
    [] np_dtype = "uint8" -> "UINT8"
    [] np_dtype \in {"object_", "bytes_"} -> "BYTES"
    [] OTHER -> "KeyError"

\* TRITON_TO_DLPACK_DTYPE[data_type], written as the numpy name of the
\* exported element type.  The protocol has no variable-length element type,
\* so BYTES has no entry (to_bytes_array exports a UINT8 view instead).
TRITON_TO_DLPACK_DTYPE(data_type) ==
  CASE data_type = "FP32" -> "float32"
    [] data_type = "INT64" -> "int64"
    [] data_type = "UINT8" -> "uint8"
    [] OTHER -> "KeyError"

\* DLPackObject.triton_data_type: the protocol's element type looked up in
\* the table of Triton data types; there is none for complex numbers.
view_triton_data_type(obj) ==
  IF obj.np_dtype \in {"float32", "int64", "uint8"}
    THEN NUMPY_TO_TRITON_DTYPE(obj.np_dtype)
    ELSE "KeyError"

view_byte_size(obj) == Product(obj.shape) * itemsize(obj.np_dtype)

\* MemoryBuffer._from_dlpack_object(owner, dlpack_object)
MemoryBuffer_from_dlpack_object_unchecked(owner, view) ==
  [ok |-> TRUE,
   buffer |-> MemoryBuffer(view.data_ptr, view.memory_type, view.memory_type_id,
                           view_byte_size(view), <<"object", owner.id>>)]

MemoryBuffer_from_dlpack_object(owner, view) ==
  IF ~view.contiguous
    THEN [ok |-> FALSE, buffer |-> MemoryBuffer(0, "CPU", 0, 0, <<"none", "">>)]
    ELSE [ok |-> TRUE,
          buffer |-> MemoryBuffer(view.data_ptr, view.memory_type,
                                  view.memory_type_id, view_byte_size(view),
                                  <<"object", owner.id>>)]

\* MemoryBuffer.from_dlpack(owner)
MemoryBuffer_from_dlpack(owner) ==
  IF ~owner.has_dlpack
    THEN Raises("InvalidArgumentError", <<"Object does not support DLpack protocol">>)
  ELSE
    LET dlpack_object == DLPackObject(owner)
    IN  IF ~dlpack_object.ok
          THEN Raises("InvalidArgumentError", <<"DLPackObject">>)
        ELSE IF ~dlpack_object.view.contiguous
          THEN Raises("InvalidArgumentError", <<"Only contiguous memory is supported">>)
        ELSE Returns([ref |-> "buffer",
                      buffer |-> MemoryBuffer(dlpack_object.view.data_ptr,
                                  dlpack_object.view.memory_type,
                                  dlpack_object.view.memory_type_id,
                                  view_byte_size(dlpack_object.view),
                                  <<"object", owner.id>>)],
                     FALSE, FALSE, "none")

\* Tensor.from_dlpack(obj)
from_dlpack(obj) ==
  LET dlpack_object == DLPackObject(obj)
  IN  IF ~dlpack_object.ok
        THEN Raises("InvalidArgumentError", <<"DLPackObject">>)
      ELSE
        LET data_type == view_triton_data_type(dlpack_object.view)
            shape == dlpack_object.view.shape
            memory_buffer == MemoryBuffer_from_dlpack_object(obj, dlpack_object.view)
        IN  IF data_type = "KeyError"
              THEN Raises("KeyError", <<dlpack_object.view.np_dtype>>)
            ELSE IF ~memory_buffer.ok
              THEN Raises("InvalidArgumentError",
                          <<"Only contiguous memory is supported">>)
              ELSE Returns([ref |-> "new",
                            tensor |-> Tensor(data_type, shape,
                                              memory_buffer.buffer, <<>>)],
                           FALSE, FALSE, "from_dlpack")


(***************************************************************************)
(* Tensor._from_numpy, Tensor._from_list, Tensor.from_object                *)
(***************************************************************************)
\* Addresses of memory this module allocates itself.
SerializedPtr == 12288
HostCopyPtr == 8192
DeviceCopyPtr == 16384

\* Address of the 0-d array numpy.asarray makes of a scalar.
ScalarArrayPtr == 24576

\* isinstance(obj, numpy.generic): obj is a numpy scalar.
isinstance_numpy_generic(obj) == obj.type \in {"numpy.generic", "numpy.float32"}

\* numpy.asarray(obj) of a scalar: a new 0-d array holding its value.
numpy_asarray(obj) ==
  [obj EXCEPT !.id = "numpy.asarray", !.type = "numpy.ndarray",
              !.data_ptr = ScalarArrayPtr]

from_numpy(obj) ==
  LET data_type == NUMPY_TO_TRITON_DTYPE(obj.np_dtype)
      shape == obj.shape
      array == IF isinstance_numpy_generic(obj) THEN numpy_asarray(obj) ELSE obj
  IN  IF data_type = "KeyError" THEN Raises("KeyError", <<obj.np_dtype>>)
      ELSE IF data_type = "BYTES"
        THEN LET ser == serialize_numpy_bytes_array(
                          [dtype |-> array.np_dtype, items |-> array.items])
             IN  IF ~ser.ok THEN Raises(ser.error, <<>>)
                 ELSE Returns([ref |-> "new",
                               tensor |-> Tensor(data_type, shape,
                                 MemoryBuffer(SerializedPtr, "CPU", 0,
                                              1 * Len(ser.buffer),
                                              <<"serialized", array.id>>),
                                 ser.buffer)],
                              FALSE, TRUE, "converter")
      ELSE Returns([ref |-> "new",
                    tensor |-> Tensor(data_type, shape,
                      MemoryBuffer(array.data_ptr, "CPU", 0,
                                   itemsize(array.np_dtype) * Product(array.shape),
                                   <<"object", array.id>>),
                      <<>>)],
                   FALSE, FALSE, "converter")

\* numpy.array(obj) of a list: a new array object, when numpy can build one.
numpy_array(obj) == [obj EXCEPT !.id = "numpy.array"]

from_list(obj) ==
  IF ~obj.list_ok
    THEN Raises("InvalidArgumentError", <<"Conversion", obj.id>>)
    ELSE LET r == from_numpy(numpy_array(obj))
         IN  IF r.outcome = "raise"
               THEN Raises("InvalidArgumentError", <<"Conversion", obj.id>>)
               ELSE r

\* The keys of Tensor._from_converters.
from_converters == {"numpy.ndarray", "numpy.generic", "list"}

from_converter(type, obj) ==
  IF type = "list" THEN from_list(obj) ELSE from_numpy(obj)

from_object_dlpack_first(obj) ==
  IF obj.has_dlpack
    THEN [from_dlpack(obj) EXCEPT !.via = "from_dlpack"]
  ELSE IF obj.type \in from_converters
    THEN [from_converter(obj.type, obj) EXCEPT !.via = "converter"]
  ELSE Raises("InvalidArgumentError", <<obj.type>>)

from_object(obj) ==
  IF obj.type \in from_converters
    THEN [from_converter(obj.type, obj) EXCEPT !.via = "converter"]
  ELSE IF obj.has_dlpack
    THEN [from_dlpack(obj) EXCEPT !.via = "from_dlpack"]
  ELSE Raises("InvalidArgumentError", <<obj.type>>)

(***************************************************************************)
(* Tensor.to_device, Tensor.to_host                                         *)
(***************************************************************************)
STRING_TO_TRITON_MEMORY_TYPE(name) ==
  CASE name \in {"cpu", "CPU"} -> "CPU"
    [] name \in {"gpu", "GPU"} -> "GPU"
    [] name \in {"cpu_pinned", "CPU_PINNED"} -> "CPU_PINNED"

\* _parse_device_or_memory_type(device): a string name or a MemoryType means
\* id 0; a pair is taken as given.
parse_device_or_memory_type(device) ==
  IF device.form = "pair" THEN device.pair
  ELSE <<STRING_TO_TRITON_MEMORY_TYPE(device.name), 0>>

\* An array made by a bridge library.
ndarray(id, type, np_dtype, shape, data_ptr, memory_type, memory_type_id) ==
  [id |-> id, type |-> type, has_dlpack |-> TRUE, list_ok |-> FALSE,
   np_dtype |-> np_dtype, shape |-> shape, items |-> <<>>,
   contiguous |-> TRUE, data_ptr |-> data_ptr, memory_type |-> memory_type,
   memory_type_id |-> memory_type_id]

\* numpy.from_dlpack(self): an array over the receiver's memory; it reports
\* the device of the record it was imported from.
numpy_from_dlpack(self) ==
  ndarray("numpy.from_dlpack", "numpy.ndarray",
          TRITON_TO_DLPACK_DTYPE(self.data_type), self.shape, self.data_ptr,
          self.memory_type, self.memory_type_id)

\* cupy.from_dlpack(self): a device array over the receiver's memory.
cupy_from_dlpack(self) ==
  ndarray("cupy.from_dlpack", "cupy.ndarray",
          TRITON_TO_DLPACK_DTYPE(self.data_type), self.shape, self.data_ptr,
          self.memory_type, self.memory_type_id)

\* cupy.asnumpy(a): a host array is returned as it is, a device array is
\* copied to a new host array.
cupy_asnumpy(a) ==
  IF a.type = "numpy.ndarray" THEN a
  ELSE ndarray("cupy.asnumpy", "numpy.ndarray", a.np_dtype, a.shape,
               HostCopyPtr, "CPU", 0)

\* cupy.asarray(a) inside `with cupy.cuda.Device(device_id)`: an array of
\* that device is returned as it is, any other is copied to the device.
cupy_asarray(a, device_id) ==
  IF a.type = "cupy.ndarray" /\ a.memory_type_id = device_id THEN a
  ELSE ndarray("cupy.asarray", "cupy.ndarray", a.np_dtype, a.shape,
               DeviceCopyPtr, "GPU", device_id)

\* Lines 468-482: what to_device does past the no-op fast paths.
to_device_migrate(self, memory_type, memory_type_id) ==
  LET on_host == self.memory_type \in {"CPU", "CPU_PINNED"}
      unsupported == Raises("UnsupportedError",
                            <<<<self.memory_type, self.memory_type_id>>,
                              <<memory_type, memory_type_id>>>>)
  IN  IF ~cupy THEN unsupported
      ELSE IF TRITON_TO_DLPACK_DTYPE(self.data_type) = "KeyError"
        THEN Raises("KeyError", <<self.data_type>>)
      ELSE
        LET array == IF on_host THEN numpy_from_dlpack(self)
                     ELSE cupy_from_dlpack(self)
        IN  IF memory_type = "CPU"
              THEN [from_dlpack(cupy_asnumpy(array))
                      EXCEPT !.exported = TRUE, !.copied = ~on_host]
            ELSE IF memory_type = "GPU"
              THEN [from_dlpack(cupy_asarray(array, memory_type_id))
                      EXCEPT !.exported = TRUE, !.copied = TRUE]
            ELSE [unsupported EXCEPT !.exported = TRUE]

to_device_pinned_same_id_only(self, device) ==
  LET target == parse_device_or_memory_type(device)
      memory_type == target[1]
      memory_type_id == target[2]
  IN  IF self.memory_type = memory_type /\ self.memory_type_id = memory_type_id
        THEN Returns([ref |-> "self"], FALSE, FALSE, "none")
      ELSE IF self.memory_type = "CPU_PINNED" /\ memory_type = "CPU"
              /\ self.memory_type_id = memory_type_id
        THEN Returns([ref |-> "self"], FALSE, FALSE, "none")
      ELSE to_device_migrate(self, memory_type, memory_type_id)

to_device_any_target(self, device) ==
  LET target == parse_device_or_memory_type(device)
      memory_type == target[1]
      memory_type_id == target[2]
  IN  IF self.memory_type = memory_type /\ self.memory_type_id = memory_type_id
        THEN Returns([ref |-> "self"], FALSE, FALSE, "none")
      ELSE IF self.memory_type = "CPU_PINNED" /\ memory_type = "CPU"
        THEN Returns([ref |-> "self"], FALSE, FALSE, "none")
      ELSE to_device_migrate(self,
                             IF memory_type = "CPU_PINNED" THEN "CPU"
                             ELSE memory_type,
                             memory_type_id)

to_device(self, device) ==
  LET target == parse_device_or_memory_type(device)
      memory_type == target[1]
      memory_type_id == target[2]
  IN  IF self.memory_type = memory_type /\ self.memory_type_id = memory_type_id
        THEN Returns([ref |-> "self"], FALSE, FALSE, "none")
      ELSE IF self.memory_type = "CPU_PINNED" /\ memory_type = "CPU"
        THEN Returns([ref |-> "self"], FALSE, FALSE, "none")
      ELSE to_device_migrate(self, memory_type, memory_type_id)

CpuDevice == [form |-> "str", name |-> "cpu", pair |-> <<>>]

to_host(self) == to_device(self, CpuDevice)

(***************************************************************************)
(* The inputs of the Tensor operations.                                     *)
(***************************************************************************)
ReceiverPtr == 4096
ObjectPtr == 20480

Contents ==
  { [data_type |-> "BYTES", shape |-> <<1>>, data |-> <<1, 0, 0, 0, 97>>, size |-> 5],
    [data_type |-> "BYTES", shape |-> <<2>>, data |-> <<1, 0, 0, 0, 97>>, size |-> 5],
    [data_type |-> "BYTES", shape |-> <<1>>, data |-> <<1, 0, 0>>, size |-> 3],
    [data_type |-> "FP32", shape |-> <<2>>, data |-> <<>>, size |-> 8],
    [data_type |-> "INT64", shape |-> <<1, 2>>, data |-> <<>>, size |-> 16],
    [data_type |-> "UINT8", shape |-> <<3>>, data |-> <<>>, size |-> 3] }

TensorInputs ==
  { Tensor(c.data_type, c.shape,
           MemoryBuffer(ReceiverPtr, mt, id, c.size, <<"object", "buffer">>),
           c.data) :
      c \in Contents, mt \in MemoryTypes, id \in DeviceIds }

Devices ==
  { [form |-> "str", name |-> n, pair |-> <<>>] : n \in {"cpu", "gpu"} }
  \cup { [form |-> "memory_type", name |-> n, pair |-> <<>>] : n \in MemoryTypes }
  \cup { [form |-> "pair", name |-> "", pair |-> <<mt, id>>] :
           mt \in MemoryTypes, id \in DeviceIds }

Obj(id, type, has_dlpack, list_ok, np_dtype, shape, items, contiguous, mt, mid) ==
  [id |-> id, type |-> type, has_dlpack |-> has_dlpack, list_ok |-> list_ok,
   np_dtype |-> np_dtype, shape |-> shape, items |-> items,
   contiguous |-> contiguous, data_ptr |-> ObjectPtr, memory_type |-> mt,
   memory_type_id |-> mid]

ElemA == [kind |-> "bytes", val |-> <<97>>]
ElemE == [kind |-> "str", val |-> <<233>>]

Lists ==
  { Obj("[1, 2, 3]", "list", FALSE, TRUE, "int64", <<3>>, <<>>, TRUE, "CPU", 0),
    Obj("[b'a']", "list", FALSE, TRUE, "bytes_", <<1>>, <<ElemA>>, TRUE, "CPU", 0),
    Obj("[[1], [1, 2]]", "list", FALSE, FALSE, "none", <<>>, <<>>, TRUE, "CPU", 0),
    Obj("[1j]", "list", FALSE, TRUE, "complex128", <<1>>, <<>>, TRUE, "CPU", 0) }

NdArrays ==
  { Obj("float32(3,4)", "numpy.ndarray", TRUE, FALSE, "float32", <<3, 4>>, <<>>, c, "CPU", 0) :
      c \in BOOLEAN }
  \cup
  { Obj("object(2)", "numpy.ndarray", TRUE, FALSE, "object_", <<2>>, <<ElemA, ElemE>>, TRUE, "CPU", 0),
    Obj("object(0)", "numpy.ndarray", TRUE, FALSE, "object_", <<0>>, <<>>, TRUE, "CPU", 0),
    Obj("complex128(1)", "numpy.ndarray", TRUE, FALSE, "complex128", <<1>>, <<>>, TRUE, "CPU", 0),
    Obj("complex128(2,2).T", "numpy.ndarray", TRUE, FALSE, "complex128", <<2, 2>>, <<>>, FALSE, "CPU", 0) }

Scalars ==
  { Obj("numpy.float32(1.0)", "numpy.float32", FALSE, FALSE, "float32", <<>>, <<>>, TRUE, "CPU", 0) }

ExchangeObjects ==
  { Obj("torch.Tensor", "torch.Tensor", TRUE, FALSE, "float32", <<3, 4>>, <<>>, c, mt, id) :
      c \in BOOLEAN, mt \in MemoryTypes, id \in DeviceIds }
  \cup
  { Obj("numpy.matrix", "numpy.matrix", TRUE, FALSE, "float32", <<3, 4>>, <<>>, TRUE, "CPU", 0) }

PlainObjects ==
  { Obj("1", "int", FALSE, FALSE, "none", <<>>, <<>>, TRUE, "CPU", 0),
    Obj("{}", "dict", FALSE, FALSE, "none", <<>>, <<>>, TRUE, "CPU", 0) }

Objects == Lists \cup NdArrays \cup Scalars \cup ExchangeObjects \cup PlainObjects

NoCall ==
  [op |-> "none", arg |-> <<>>, pre |-> <<>>, outcome |-> "none",
   error |-> NoError, value |-> NoValue, exported |-> FALSE, copied |-> FALSE,
   via |-> "none"]

Call(op, arg, pre, r) ==
  [op |-> op, arg |-> arg, pre |-> pre, outcome |-> r.outcome,
   error |-> r.error, value |-> r.value, exported |-> r.exported,
   copied |-> r.copied, via |-> r.via]

TensorIdle ==
  /\ cupy = FALSE
  /\ tensor = Tensor("FP32", <<2>>,
                     MemoryBuffer(ReceiverPtr, "CPU", 0, 8, <<"object", "buffer">>),
                     <<>>)
  /\ last = NoCall

TensorInit ==
  /\ cupy \in BOOLEAN
  /\ tensor \in TensorInputs
  /\ last = NoCall

ToBytesArray ==
  LET r == to_bytes_array(tensor)
  IN  /\ tensor' = r.self
      /\ last' = Call("to_bytes_array", <<>>, tensor, r.result)
      /\ UNCHANGED <<cupy, exportVars, codecVars>>

ToDevice(device) ==
  /\ last' = Call("to_device", device, tensor, to_device(tensor, device))
  /\ UNCHANGED <<cupy, tensor, exportVars, codecVars>>

ToHost ==
  /\ last' = Call("to_host", CpuDevice, tensor, to_host(tensor))
  /\ UNCHANGED <<cupy, tensor, exportVars, codecVars>>

FromDlpack(obj) ==
  /\ last' = Call("Tensor.from_dlpack", obj, tensor, from_dlpack(obj))
  /\ UNCHANGED <<cupy, tensor, exportVars, codecVars>>

BufferFromDlpack(obj) ==
  /\ last' = Call("MemoryBuffer.from_dlpack", obj, tensor,
                  MemoryBuffer_from_dlpack(obj))
  /\ UNCHANGED <<cupy, tensor, exportVars, codecVars>>

FromObject(obj) ==
  /\ last' = Call("from_object", obj, tensor, from_object(obj))
  /\ UNCHANGED <<cupy, tensor, exportVars, codecVars>>

TensorNext ==
  \/ ToBytesArray
  \/ \E device \in Devices : ToDevice(device)
  \/ ToHost
  \/ \E obj \in Objects : FromDlpack(obj)
  \/ \E obj \in Objects : BufferFromDlpack(obj)
  \/ \E obj \in Objects : FromObject(obj)


ExportNext ==
  \/ \E t \in Tensors : dlpack(t)
  \/ \E t \in Tensors : DropRef(t)
  \/ \E r \in Records : ConsumerTake(r)
  \/ \E r \in Records : ConsumerDelete(r)
  \/ \E r \in Records : CapsuleFinalize(r)

RedeliverNext ==
  \/ \E t \in Tensors : dlpack(t)
  \/ \E t \in Tensors : DropRef(t)
  \/ \E r \in Records : ConsumerTake(r)
  \/ \E r \in Records : ConsumerDelete(r)
  \/ \E r \in Records : ConsumerDeleteAgain(r)
  \/ \E r \in Records : CapsuleFinalize(r)
  \/ AllocatorAbort

InitExport == ExportInit /\ CodecIdle /\ TensorIdle

InitCodec == ExportInit /\ CodecIdle /\ TensorIdle

InitTensor == ExportInit /\ CodecIdle /\ TensorInit

\* The export life cycle with a consumer that follows the DLPack hand-off.
SpecExport == InitExport /\ [][ExportNext]_vars

\* The same, with a consumer that may call a record's deleter again.
SpecRedeliver == InitExport /\ [][RedeliverNext]_vars

\* The BYTES codec applied to bounded buffers and arrays.
SpecCodec == InitCodec /\ [][CodecNext]_vars

\* The operations on one Tensor and the static constructors.
SpecTensor == InitTensor /\ [][TensorNext]_vars

(***************************************************************************)
(* Claims about the export life cycle.                                      *)
(***************************************************************************)

\* C1: while a record has been exported and its deleter has not yet been
\* invoked, the exporting Tensor has a reference count of at least 1 and the
\* record's data pointer, back-reference (manager_ctx) and shape pointer all
\* refer to live memory, whatever references the caller dropped and whether
\* or not the capsule was consumed or finalized in between.
C1_ExportKeepsAlive ==
  \A r \in Records :
    (recState[r] = "live" /\ deleterRuns[r] = 0) =>
      /\ rc[recTensor[r]] >= 1
      /\ DataAlive(r)
      /\ BackRefAlive(r)
      /\ ShapeArrayAlive(r)

\* C1's case: the caller dropped every reference, the capsule was consumed
\* and finalized, and the deleter of the record has not run yet.
C1_Witness ==
  \E r \in Records :
    /\ recState[r] = "live"
    /\ deleterRuns[r] = 0
    /\ callerRefs[recTensor[r]] = 0
    /\ capName[r] = c_str_used_dltensor
    /\ capFinalized[r] >= 1

\* C2: invoking _managed_tensor_deleter on the same record more than once
\* decrements the Tensor (and the shape object) only once, frees the record
\* only once and does not touch freed memory: the second call is a no-op.
C2_IdempotentFinalize ==
  \A r \in Records :
    /\ decs[r] <= 1
    /\ strayDecs[r] <= 1
    /\ frees[r] <= 1
    /\ ~crashed

\* C3: for every capsule and every interleaving of the consumer taking it,
\* the consumer invoking the deleter and the capsule being finalized once or
\* more, the managed-tensor deleter runs exactly once in total: never more
\* than once; once a capsule that was never taken has been finalized it has
\* run once and the capsule's destructor is cleared; for a taken capsule the
\* only runs are the consumer's own (finalization delegates nothing).
C3_DeleterRunsExactlyOnce ==
  \A r \in Records :
    /\ deleterRuns[r] <= 1
    /\ (capName[r] = c_str_dltensor /\ capFinalized[r] >= 1) =>
         (deleterRuns[r] = 1 /\ ~capDestructor[r])
    /\ (capName[r] = c_str_used_dltensor) =>
         (deleterRuns[r] = consumerCalls[r] /\ capDestructor[r])

\* C3's case: a capsule was taken, its consumer invoked the deleter, the
\* capsule was finalized twice, and another capsule was finalized twice
\* without ever being taken.
C3_Witness ==
  \E r, q \in Records :
    /\ capName[r] = c_str_used_dltensor
    /\ consumerCalls[r] = 1
    /\ capFinalized[r] >= 2
    /\ deleterRuns[r] = 1
    /\ capName[q] = c_str_dltensor
    /\ capFinalized[q] >= 2
    /\ deleterRuns[q] = 1

(***************************************************************************)
(* Claims about the BYTES codec.                                            *)
(***************************************************************************)

\* A buffer is well formed from `offset` when it is a concatenation of
\* records, each a 4-byte length prefix followed by that many bytes.
RECURSIVE WellFormed(_, _)
WellFormed(buffer, offset) ==
  IF offset = Len(buffer) THEN TRUE
  ELSE IF Len(buffer) - offset < 4 THEN FALSE
  ELSE LET n == unpack_from_I(buffer, offset)
       IN  IF offset + 4 + n > Len(buffer) THEN FALSE
           ELSE WellFormed(buffer, offset + 4 + n)

\* C5: _deserialize_bytes_array raises, and returns nothing, on every
\* malformed buffer (a length prefix cut short, or a prefix announcing more
\* bytes than remain).
C5_MalformedRaises ==
  (codecOp = "decode" /\ ~WellFormed(codecIn, 0)) => ~codecOut.ok

\* The byte-string form of an element: itself, or the UTF-8 encoding of its
\* string form.
BytesForm(x) ==
  CASE x.kind = "bytes" -> x.val
    [] x.kind = "str" -> utf8_encode(x.val)
    [] x.kind = "int" -> str_int(x.val)

\* C6: decoding the encoding of any sequence of elements (the empty sequence
\* and empty byte strings included) yields the byte-string forms of the
\* elements, in order and count.
C6_RoundTrip ==
  codecOp = "roundtrip" =>
    /\ codecOut.ok
    /\ codecOut.items = [i \in 1..Len(codecIn.items) |-> BytesForm(codecIn.items[i])]

(***************************************************************************)
(* Claims about the Tensor operations.                                      *)
(***************************************************************************)

\* C4: to_bytes_array leaves the Tensor's data_type and shape as they were
\* before the call on every exit path, whether it returns or raises.
C4_ToBytesArrayRestores ==
  last.op = "to_bytes_array" =>
    /\ tensor.data_type = last.pre.data_type
    /\ tensor.shape = last.pre.shape

\* The (memory_type, memory_type_id) a to_device / to_host call asked for.
TargetOf(call) == parse_device_or_memory_type(call.arg)

\* The no-op cases named by the claims: same kind and id, or pinned host to
\* plain host for any id.
IsFastPath(self, target) ==
  \/ self.memory_type = target[1] /\ self.memory_type_id = target[2]
  \/ self.memory_type = "CPU_PINNED" /\ target[1] = "CPU"

\* C7: on a no-op fast path to_device returns the very same Tensor, exports
\* nothing, copies nothing and leaves the Tensor as it was, with or without
\* a bridge library; to_device("cpu") and to_host on a Tensor on CPU id 0
\* return the same instance.
C7_NoOpFastPaths ==
  /\ (last.op \in {"to_device", "to_host"} /\ IsFastPath(last.pre, TargetOf(last))) =>
       /\ last.outcome = "return"
       /\ last.value.ref = "self"
       /\ ~last.exported
       /\ ~last.copied
       /\ tensor = last.pre
  /\ (/\ last.op \in {"to_device", "to_host"}
      /\ last.arg = CpuDevice
      /\ last.pre.memory_type = "CPU"
      /\ last.pre.memory_type_id = 0) =>
       (last.outcome = "return" /\ last.value.ref = "self")

\* C7's case: a pinned-host Tensor on id 0 asked to move to CPU id 1, with
\* no bridge library, came back as the same instance.
C7_Witness ==
  /\ last.op = "to_device"
  /\ ~cupy
  /\ last.pre.memory_type = "CPU_PINNED"
  /\ last.pre.memory_type_id = 0
  /\ TargetOf(last) = <<"CPU", 1>>
  /\ last.value.ref = "self"

FixedWidth(data_type) == data_type \in {"FP32", "INT64", "UINT8"}

CanExport(obj) ==
  obj.has_dlpack /\ obj.np_dtype \in {"float32", "int64", "uint8", "complex128"}

\* The element type has a Triton data type.
HasTritonType(obj) == obj.np_dtype \in {"float32", "int64", "uint8"}

RegisteredTypes == {"list", "numpy.ndarray", "numpy.generic"}

\* What a call returned or raised.
Result(r) == <<r.outcome, r.error, r.value>>

\* C10: from_object uses the registered converter, and not the exchange
\* path, when type(obj) is in the converter table; else the result is that
\* of from_dlpack(obj) when obj has the exchange protocol; else it raises
\* InvalidArgumentError naming the type.  Every input takes exactly one of
\* the three ways, and a list whose conversion fails raises
\* InvalidArgumentError.
C10_FromObjectDispatch ==
  last.op = "from_object" =>
    LET obj == last.arg IN
    /\ last.via \in {"converter", "from_dlpack", "none"}
    /\ (last.via = "converter") <=> (obj.type \in RegisteredTypes)
    /\ (last.via = "from_dlpack") <=> (obj.type \notin RegisteredTypes /\ obj.has_dlpack)
    /\ obj.type = "list" =>
         /\ Result(last) = Result(from_list(obj))
         /\ last.outcome = "raise" => last.error.kind = "InvalidArgumentError"
    /\ (obj.type \in RegisteredTypes /\ obj.type # "list") =>
         Result(last) = Result(from_numpy(obj))
    /\ (obj.type \notin RegisteredTypes /\ obj.has_dlpack) =>
         Result(last) = Result(from_dlpack(obj))
    /\ (obj.type \notin RegisteredTypes /\ ~obj.has_dlpack) =>
         /\ last.outcome = "raise"
         /\ last.error.kind = "InvalidArgumentError"
         /\ last.error.detail = <<obj.type>>

\* C10's case: from_object of a list numpy cannot turn into an array raised
\* InvalidArgumentError from the converter.
C10_Witness ==
  /\ last.op = "from_object"
  /\ last.arg.type = "list"
  /\ ~last.arg.list_ok
  /\ last.via = "converter"
  /\ last.outcome = "raise"
  /\ last.error.kind = "InvalidArgumentError"

(***************************************************************************)
(* Claims about the reference counts after finalization.                    *)
(***************************************************************************)

\* The records made by exports of Tensor t.
ExportsOf(t) == {r \in Records : recState[r] # "none" /\ recTensor[r] = t}

\* C11: export followed by one finalization is reference-count neutral on
\* the same objects.  Once the deleter of a record has run once, the
\* reference it took on that export's shape object has been released and no
\* other object has been decremented; and once the deleter of every record
\* exported from a Tensor has run once, the Tensor's reference count is back
\* to its pre-export value (the references its caller holds).
C11_RefcountNeutral ==
  /\ \A r \in Records :
       (deleterRuns[r] = 1 /\ recState[r] = "freed") =>
         (pin[r] = 0 /\ strayDecs[r] = 0)
  /\ \A t \in Tensors :
       (\A r \in ExportsOf(t) : deleterRuns[r] = 1 /\ recState[r] = "freed") =>
         rc[t] = callerRefs[t]

=============================================================================
